---- MODULE Spec2Model ----
(***************************************************************************)
(* The completion monitor of flytezen: wait_for_workflow_completion and    *)
(* the confirmation worker get_user_input                                  *)
(* (src/src/flytezen/cli/execution_utils.py, lines 305-383; the top-level  *)
(* script src/execution_utils.py, lines 111-179, is the same code with the *)
(* builtin exit in place of sys.exit).                                     *)
(*                                                                         *)
(* The main thread runs the polling loop and, after a KeyboardInterrupt,   *)
(* the interrupt handler; the daemon thread runs get_user_input.  The      *)
(* backend client (FlyteRemote) is external: every call of it returns or   *)
(* raises nondeterministically.  A text is a sequence of one-character     *)
(* strings.                                                                *)
(*                                                                         *)
(* execute_workflow (src/src/flytezen/cli/execute.py, lines 97-240) is the *)
(* caller of the monitor.  Spec starts where the monitor is entered;       *)
(* SpecExec starts at the entry of execute_workflow and follows the        *)
(* monitor through the polling loop of a run that is not interrupted.      *)
(*                                                                         *)
(* main (src/src/flytezen/cli/execute.py, lines 275-393), the click group  *)
(* (src/src/flytezen/cli/__init__.py) and main of the top-level script     *)
(* (src/execute.py, lines 147-237) are the entry points.  SpecMain starts  *)
(* at the command line and follows a whole process, sweeps included;       *)
(* SpecVersion applies git_info_to_workflow_version to every origin url.   *)
(***************************************************************************)
EXTENDS Integers, Sequences, FiniteSets

VARIABLES
    pc,                \* main thread: where wait_for_workflow_completion stands
    worker,            \* confirmation thread: idle, reading, done, dead
    input_queue,       \* queue.Queue() of the handler: the texts put and not yet got
    typed,             \* history: <<text>> once input() has returned text in the worker
    response,          \* local `response`: <<>> while unbound, then <<text>>
    timedOut,          \* history: input_queue.get raised queue.Empty
    synced_execution,  \* local `synced_execution`: "None" or the phase last synchronised
    statusAtInterrupt, \* history: <<>> or <<synced_execution>> when KeyboardInterrupt was caught
    resynced,          \* history: <<>> or <<phase>> returned by the handler's remote.sync
    completed,         \* history: "none", or what remote.wait returned: "ok", "error"
    timeouts,          \* history: how many times remote.wait raised FlyteTimeout
    terminateOutcome,  \* history: "none", or how remote.terminate ended
    trace,             \* history: calls issued and handler events, in order
    logs,              \* history: the kinds of logger messages emitted
    exitStatus,        \* <<>> while the process lives, then <<status>>
    execution_context, \* the ExecutionContext execute_workflow was called with
    calls,             \* history: what execute_workflow has called, in order, what
                       \* remote.fast_package returned and which call raised
    argv,              \* the command line: entry point, subcommand, the chosen
                       \* execution_context group and the number of sweep jobs
    environ,           \* os.environ after load_dotenv: name -> <<>> or <<value>>
    repository,        \* what the three git commands print: branch, sha, url
    queries,           \* history: the git commands issued, and "raised"
    identity,          \* <<>>, then <<repo_name, git_branch, git_short_sha>>
    store,             \* <<>>, then <<the execution_context group of the store>>
    drawn,             \* history: what random_alphanumeric_suffix returned, and for
                       \* which preset, in order
    jobs               \* how many jobs hydra has started

vars == <<pc, worker, input_queue, typed, response, timedOut, synced_execution,
          statusAtInterrupt, resynced, completed, timeouts, terminateOutcome, trace,
          logs, exitStatus, execution_context, calls, argv, environ, repository,
          queries, identity, store, drawn, jobs>>

\* The state of main: execute_workflow and the monitor leave it alone.
mainVars ==
    <<argv, environ, repository, queries, identity, store, drawn, jobs>>

----------------------------------------------------------------------------
(* Bounds *)

\* The polling loop is unbounded; the model stops taking timeouts here.
MaxTimeouts == 2

\* The longest text the user types at the confirmation prompt.
MaxLen == 3

----------------------------------------------------------------------------
(* Values *)

\* flytekit's WorkflowExecutionPhase, as far as the monitor tells phases apart:
\* three phases with further transitions, three without.
NonTerminalPhases == {"QUEUED", "RUNNING", "ABORTING"}

TerminalPhases == {"SUCCEEDED", "FAILED", "ABORTED"}

Phases == NonTerminalPhases \cup TerminalPhases

\* Characters the user may type: white space, lower and upper case letters.
Alphabet == {" ", "y", "Y", "e", "s"}

Texts == UNION {[1..n -> Alphabet] : n \in 0..MaxLen}

----------------------------------------------------------------------------
(* str.strip() and str.lower() *)

IsSpace(c) == c = " "

RECURSIVE LStrip(_)
LStrip(s) == IF s # <<>> /\ IsSpace(Head(s)) THEN LStrip(Tail(s)) ELSE s

RECURSIVE RStrip(_)
RStrip(s) ==
    IF s # <<>> /\ IsSpace(s[Len(s)]) THEN RStrip(SubSeq(s, 1, Len(s) - 1)) ELSE s

Strip(s) == RStrip(LStrip(s))

LowerChar(c) ==
    CASE c = "Y" -> "y"
      [] c = "A" -> "a"
      [] c = "D" -> "d"
      [] c = "E" -> "e"
      [] c = "H" -> "h"
      [] OTHER -> c

Lower(s) == [i \in 1..Len(s) |-> LowerChar(s[i])]

\* Faulty variant: the response is lower-cased but not stripped.
NormaliseWithoutStrip(text) == Lower(text)

\* response = response.strip().lower()
Normalise(text) == Lower(Strip(text))

\* Faulty variant: the answer assumed on expiry is affirmative.
TimeoutDefaultYes == <<"y">>

\* response = "n" when input_queue.get times out
TimeoutDefault == <<"n">>

\* response in ["y", "yes"]
Affirmative == {<<"y">>, <<"y", "e", "s">>}

\* Faulty variant: every response but "n" counts as affirmative.
IsAffirmativeUnlessNo(r) == r # <<"n">>

IsAffirmative(r) == r \in Affirmative

\* Faulty variant: only a succeeded execution is spared.
PhaseAllowsTerminateUnlessSucceeded(phase) == phase # "SUCCEEDED"

\* synced_execution.closure.phase in [WorkflowExecutionPhase.RUNNING]
PhaseAllowsTerminate(phase) == phase \in {"RUNNING"}

\* Faulty variant: the decision reads the status at hand before the re-synchronisation.
DecisivePhaseStale(before, fresh) == before

\* The phase the handler's decision reads: the one its own remote.sync returned.
DecisivePhase(before, fresh) == fresh

\* sys.exit(arg): SystemExit(None) ends the process with status 0.
SysExit(args) == IF args = <<>> THEN <<0>> ELSE <<args[1]>>

\* An exception nobody catches ends the interpreter with status 1.
Unhandled == <<1>>

\* An uncaught KeyboardInterrupt ends the interpreter as if killed by SIGINT.
UnhandledInterrupt == <<130>>

Alive == exitStatus = <<>>

----------------------------------------------------------------------------
(* execute_workflow: the execution context and the calls it makes *)

\* ExecutionMode has local, dev and prod; mode is a plain string and may be
\* anything else.
Modes == {"local", "dev", "prod", "staging", "DEV"}

Images == {"ghcr.io/sciexp/flytezen"}

Tags == {"main", "16323b3"}

Versions == {"flytezen-main-16323b3", "flytezen-main-16323b3-dev-a1b"}

\* Where remote.fast_package may have uploaded the package.
UploadUrls == {"s3://bucket/fast-1.tar.gz", "s3://bucket/fast-2.tar.gz"}

Contexts ==
    [mode : Modes, image : Images, tag : Tags, version : Versions, wait : BOOLEAN]

\* ImageConfig.auto(img_name=f"{image}:{tag}")
ImageConfigOf(ctx) == <<ctx.image, ctx.tag>>

\* SerializationSettings(image_config=..., fast_serialization_settings=...):
\* upload is <<>> in prod and <<upload_url>> in dev.
SerializationSettingsOf(ctx, upload) ==
    [image_config |-> ImageConfigOf(ctx), distribution_location |-> upload]

\* remote.register_workflow(entity, serialization_settings, version)
RegisterCall(ctx, upload) ==
    <<"register_workflow", SerializationSettingsOf(ctx, upload), ctx.version>>

\* Faulty variant: the execution is submitted under a version of its own.
ExecuteCallOtherVersion(ctx) ==
    <<"execute", CHOOSE v \in Versions : v # ctx.version, ctx.version, FALSE>>

\* remote.execute(entity, inputs, version, execution_name_prefix, wait=False)
ExecuteCall(ctx) == <<"execute", ctx.version, ctx.version, FALSE>>

\* Faulty variant: the monitor is entered whatever the flag says.
MonitorAlways(ctx) == TRUE

\* if execution_context.wait:
MonitorWanted(ctx) == ctx.wait

\* The context and the calls of the run whose monitor Spec follows.
MonitoredContext ==
    [mode |-> "prod", image |-> "ghcr.io/sciexp/flytezen", tag |-> "16323b3",
     version |-> "flytezen-main-16323b3", wait |-> TRUE]

MonitoredCalls ==
    << <<"FlyteRemote">>, RegisterCall(MonitoredContext, <<>>),
       ExecuteCall(MonitoredContext), <<"wait_for_workflow_completion">> >>

----------------------------------------------------------------------------
(* main: the command line, the environment and the repository *)

\* Bounds: the jobs of one sweep, and the longest origin url.
MaxJobs == 2

MaxUrlLen == 5

\* random_alphanumeric_suffix draws `length` characters (default 3).
SuffixLength == 3

\* "abcdefghijklmnopqrstuvwxyz0123456789", the characters secrets.choice draws from.
SuffixAlphabet ==
    {"a", "b", "c", "d", "e", "f", "g", "h", "i", "j", "k", "l", "m", "n", "o",
     "p", "q", "r", "s", "t", "u", "v", "w", "x", "y", "z",
     "0", "1", "2", "3", "4", "5", "6", "7", "8", "9"}

\* The draws the model follows.
SuffixChars == {"a", "7"}

\* random_alphanumeric_suffix(): "".join of SuffixLength drawn characters.
random_alphanumeric_suffix == [1..SuffixLength -> SuffixChars]

UpperCase == {"Y", "A", "D", "E", "H"}

\* any(char.isupper() for char in string)
HasUpper(text) == \E i \in 1..Len(text) : text[i] \in UpperCase

\* The variables the top-level script requires.
RequiredVars ==
    {"WORKFLOW_IMPORT_PATH", "WORKFLOW_CONFIG_CLASS_NAME", "WORKFLOW_PROJECT",
     "WORKFLOW_DOMAIN", "WORKFLOW_REGISTRATION_MODE", "WORKFLOW_IMAGE"}

EnvImage == "ghcr.io/sciexp/flytezen"

\* os.environ.get("WORKFLOW_IMAGE", "localhost:30000/flytezen")
DefaultImage == "localhost:30000/flytezen"

FullEnviron(mode) ==
    [v \in RequiredVars |->
        CASE v = "WORKFLOW_REGISTRATION_MODE" -> <<mode>>
          [] v = "WORKFLOW_IMAGE" -> <<EnvImage>>
          [] OTHER -> <<"set">>]

Environments ==
    {FullEnviron(m) : m \in {"dev", "prod", "staging"}}
    \cup {[FullEnviron("dev") EXCEPT ![v] = <<>>] :
            v \in {"WORKFLOW_IMAGE", "WORKFLOW_REGISTRATION_MODE", "WORKFLOW_PROJECT"}}

\* check_required_env_vars: the names that os.environ.get finds unset.
missing_vars(required_vars, env) == {v \in required_vars : env[v] = <<>>}

check_required_env_vars(required_vars, env) ==
    missing_vars(required_vars, env) = {}

\* os.environ.get(name, default)
EnvGet(env, name, default) == IF env[name] = <<>> THEN default ELSE env[name][1]

\* Origin urls, branch names and short revisions, as git prints them.
UrlAlphabet == {"/", ".", "g", "i", "t", "A"}

Urls == UNION {[1..n -> UrlAlphabet] : n \in 0..MaxUrlLen}

Branches == {<<"m">>, <<"H", "E", "A", "D">>}

ShortShas == {<<"1", "a">>}

\* The repositories of the complete runs, and those of the derivation alone.
MainRepositories ==
    [branch : Branches, sha : ShortShas,
     url : {<<"/", "A", ".", "g", "i", "t">>, <<"A", "/", "g", "i", "t">>}]

VersionRepositories ==
    [branch : {<<"m">>}, sha : ShortShas, url : Urls]
    \cup [branch : Branches, sha : ShortShas, url : {<<"/", "A", ".", "g", "i", "t">>}]

\* remote_url.split("/")[-1]
RECURSIVE LastSegment(_)
LastSegment(url) ==
    IF url = <<>> \/ url[Len(url)] = "/"
    THEN <<>>
    ELSE Append(LastSegment(SubSeq(url, 1, Len(url) - 1)), url[Len(url)])

\* str.rstrip(chars): the trailing characters that belong to chars are removed.
RECURSIVE RStripChars(_, _)
RStripChars(text, chars) ==
    IF text # <<>> /\ text[Len(text)] \in chars
    THEN RStripChars(SubSeq(text, 1, Len(text) - 1), chars)
    ELSE text

DotGit == <<".", "g", "i", "t">>

\* The repo name of the origin url: .split("/")[-1].rstrip(".git")
RepoNameOf(remote_url) ==
    RStripChars(LastSegment(remote_url), {DotGit[i] : i \in 1..Len(DotGit)})

\* Faulty variant: the components are returned as git printed them.
git_info_as_printed(repo) ==
    <<RepoNameOf(Strip(repo.url)), Strip(repo.branch), Strip(repo.sha)>>

\* git_info_to_workflow_version of the package: the stripped outputs, lower-cased.
git_info_to_workflow_version(repo) ==
    <<Lower(RepoNameOf(Strip(repo.url))), Lower(Strip(repo.branch)),
      Lower(Strip(repo.sha))>>

\* git_info_to_workflow_version of the top-level script: no lower-casing.
script_git_info_to_workflow_version(repo) ==
    <<RepoNameOf(Strip(repo.url)), Strip(repo.branch), Strip(repo.sha)>>

Dash == <<"-">>

\* f"{repo_name}-{git_branch}-{git_short_sha}"
VersionOf(id) == id[1] \o Dash \o id[2] \o Dash \o id[3]

LocalMark == <<"-", "l", "o", "c", "a", "l", "-">>

DevMark == <<"-", "d", "e", "v", "-">>

\* Faulty variant: the dev preset is tagged with the revision, like prod.
PresetsDevTaggedWithSha(id, workflow_image, local_suffix, dev_suffix) ==
    [local |-> [mode |-> "local", image |-> "", tag |-> <<>>,
                version |-> VersionOf(id) \o LocalMark \o local_suffix,
                wait |-> TRUE],
     dev   |-> [mode |-> "dev", image |-> workflow_image, tag |-> id[3],
                version |-> VersionOf(id) \o DevMark \o dev_suffix,
                wait |-> TRUE],
     prod  |-> [mode |-> "prod", image |-> workflow_image, tag |-> id[3],
                version |-> VersionOf(id), wait |-> TRUE]]

\* The three presets main stores in the execution_context group.
Presets(id, workflow_image, local_suffix, dev_suffix) ==
    [local |-> [mode |-> "local", image |-> "", tag |-> <<>>,
                version |-> VersionOf(id) \o LocalMark \o local_suffix,
                wait |-> TRUE],
     dev   |-> [mode |-> "dev", image |-> workflow_image, tag |-> id[2],
                version |-> VersionOf(id) \o DevMark \o dev_suffix,
                wait |-> TRUE],
     prod  |-> [mode |-> "prod", image |-> workflow_image, tag |-> id[3],
                version |-> VersionOf(id), wait |-> TRUE]]

\* The command lines: the click group with or without its subcommand, the
\* package entry point with the execution_context group chosen and one job
\* or a sweep, and the top-level script.
Commands ==
    [entry : {"cli"}, subcommand : {"none", "execute"}, choice : {"dev"},
     jobs : {1}]
    \cup [entry : {"package"}, subcommand : {"none"},
          choice : {"local", "dev", "prod"}, jobs : 1..MaxJobs]
    \cup [entry : {"script"}, subcommand : {"none"}, choice : {"dev"},
          jobs : 1..MaxJobs]

\* execute_workflow called on its own: main has built nothing.
CalledDirectly ==
    /\ argv = [entry |-> "none", subcommand |-> "none", choice |-> "dev", jobs |-> 1]
    /\ environ = FullEnviron("dev")
    /\ repository = [branch |-> <<"m">>, sha |-> <<"1", "a">>, url |-> <<>>]
    /\ queries = <<>>
    /\ identity = <<>>
    /\ store = <<>>
    /\ drawn = <<>>
    /\ jobs = 1

----------------------------------------------------------------------------
Init ==
    /\ pc = "start"
    /\ worker = "idle"
    /\ input_queue = <<>>
    /\ typed = <<>>
    /\ response = <<>>
    /\ timedOut = FALSE
    /\ synced_execution = "None"
    /\ statusAtInterrupt = <<>>
    /\ resynced = <<>>
    /\ completed = "none"
    /\ timeouts = 0
    /\ terminateOutcome = "none"
    /\ trace = <<>>
    /\ logs = {}
    /\ exitStatus = <<>>
    /\ execution_context = MonitoredContext
    /\ calls = MonitoredCalls
    /\ CalledDirectly

----------------------------------------------------------------------------
(* The polling loop *)

\* Entering the loop: the first remote.wait(execution, timeout) is issued.
Start ==
    /\ pc = "start"
    /\ pc' = "waiting"
    /\ trace' = Append(trace, "wait")
    /\ UNCHANGED <<terminateOutcome, worker, input_queue, typed, response,
                   timedOut, synced_execution, statusAtInterrupt, resynced,
                   completed, timeouts, logs, exitStatus, execution_context,
                   calls, mainVars>>

\* remote.wait returns a completed execution whose error is None: break, return.
WaitSucceeds ==
    /\ pc = "waiting"
    /\ completed' = "ok"
    /\ logs' = logs \cup {"completed"}
    /\ pc' = "returned"
    /\ UNCHANGED <<terminateOutcome, worker, input_queue, typed, response,
                   timedOut, synced_execution, statusAtInterrupt, resynced,
                   timeouts, trace, exitStatus, execution_context, calls, mainVars>>

\* Faulty variant: the failed execution ends the loop like a successful one.
WaitReportsErrorAndReturns ==
    /\ pc = "waiting"
    /\ completed' = "error"
    /\ logs' = logs \cup {"completed", "error"}
    /\ pc' = "returned"
    /\ UNCHANGED <<terminateOutcome, worker, input_queue, typed, response,
                   timedOut, synced_execution, statusAtInterrupt, resynced,
                   timeouts, trace, exitStatus, execution_context, calls, mainVars>>

\* remote.wait returns a completed execution that carries an error: sys.exit(1).
WaitReportsError ==
    /\ pc = "waiting"
    /\ completed' = "error"
    /\ logs' = logs \cup {"completed", "error"}
    /\ pc' = "exited"
    /\ exitStatus' = SysExit(<<1>>)
    /\ UNCHANGED <<terminateOutcome, worker, input_queue, typed, response,
                   timedOut, synced_execution, statusAtInterrupt, resynced,
                   timeouts, trace, execution_context, calls, mainVars>>

\* Faulty variant: after a timeout the loop sleeps without re-synchronising.
WaitTimeoutWithoutSync ==
    /\ pc = "waiting"
    /\ timeouts < MaxTimeouts
    /\ timeouts' = timeouts + 1
    /\ pc' = "sleeping"
    /\ trace' = Append(trace, "sleep")
    /\ UNCHANGED <<terminateOutcome, worker, input_queue, typed, response,
                   timedOut, synced_execution, statusAtInterrupt, resynced,
                   completed, logs, exitStatus, execution_context, calls, mainVars>>

\* remote.wait raises FlyteTimeout: the handler issues remote.sync(execution).
WaitTimeout ==
    /\ pc = "waiting"
    /\ timeouts < MaxTimeouts
    /\ timeouts' = timeouts + 1
    /\ pc' = "syncing"
    /\ trace' = Append(trace, "sync")
    /\ UNCHANGED <<terminateOutcome, worker, input_queue, typed, response,
                   timedOut, synced_execution, statusAtInterrupt, resynced,
                   completed, logs, exitStatus, execution_context, calls, mainVars>>

\* Faulty variant: any exception of remote.wait is handled like a timeout.
WaitFailsAndRetries ==
    /\ pc = "waiting"
    /\ pc' = "syncing"
    /\ trace' = trace \o <<"failed", "sync">>
    /\ UNCHANGED <<terminateOutcome, worker, input_queue, typed, response,
                   timedOut, synced_execution, statusAtInterrupt, resynced,
                   completed, timeouts, logs, exitStatus, execution_context,
                   calls, mainVars>>

\* remote.wait raises anything else: neither except clause matches.
WaitFails ==
    /\ pc = "waiting"
    /\ pc' = "crashed"
    /\ trace' = Append(trace, "failed")
    /\ exitStatus' = Unhandled
    /\ UNCHANGED <<terminateOutcome, worker, input_queue, typed, response,
                   timedOut, synced_execution, statusAtInterrupt, resynced,
                   completed, timeouts, logs, execution_context, calls, mainVars>>

\* Faulty variant: a terminal phase seen by remote.sync ends the loop.
SyncReturnsEndsOnTerminal ==
    /\ pc = "syncing"
    /\ \E phase \in Phases :
        /\ synced_execution' = phase
        /\ IF phase \in TerminalPhases
           THEN /\ pc' = "returned"
                /\ UNCHANGED trace
           ELSE /\ pc' = "sleeping"
                /\ trace' = Append(trace, "sleep")
    /\ logs' = logs \cup {"status"}
    /\ UNCHANGED <<terminateOutcome, worker, input_queue, typed, response,
                   timedOut, statusAtInterrupt, resynced, completed, timeouts,
                   exitStatus, execution_context, calls, mainVars>>

\* remote.sync returns: the status is logged and time.sleep is entered.
SyncReturns ==
    /\ pc = "syncing"
    /\ \E phase \in Phases : synced_execution' = phase
    /\ logs' = logs \cup {"status"}
    /\ pc' = "sleeping"
    /\ trace' = Append(trace, "sleep")
    /\ UNCHANGED <<terminateOutcome, worker, input_queue, typed, response,
                   timedOut, statusAtInterrupt, resynced, completed, timeouts,
                   exitStatus, execution_context, calls, mainVars>>

\* remote.sync raises inside the FlyteTimeout handler.
SyncFails ==
    /\ pc = "syncing"
    /\ pc' = "crashed"
    /\ trace' = Append(trace, "failed")
    /\ exitStatus' = Unhandled
    /\ UNCHANGED <<terminateOutcome, worker, input_queue, typed, response,
                   timedOut, synced_execution, statusAtInterrupt, resynced,
                   completed, timeouts, logs, execution_context, calls, mainVars>>

\* Faulty variant: the loop gives up after one polling cycle.
SleepDoneGivesUp ==
    /\ pc = "sleeping"
    /\ pc' = "returned"
    /\ UNCHANGED <<terminateOutcome, worker, input_queue, typed, response,
                   timedOut, synced_execution, statusAtInterrupt, resynced,
                   completed, timeouts, trace, logs, exitStatus,
                   execution_context, calls, mainVars>>

\* time.sleep returns: the loop issues the next remote.wait.
SleepDone ==
    /\ pc = "sleeping"
    /\ pc' = "waiting"
    /\ trace' = Append(trace, "wait")
    /\ UNCHANGED <<terminateOutcome, worker, input_queue, typed, response,
                   timedOut, synced_execution, statusAtInterrupt, resynced,
                   completed, timeouts, logs, exitStatus, execution_context,
                   calls, mainVars>>

----------------------------------------------------------------------------
(* The interrupt handler *)

\* Faulty variant: only remote.wait is inside the try of the interrupt handler.
InterruptHandledOnlyInWait ==
    \/ /\ pc = "waiting"
       /\ statusAtInterrupt' = <<synced_execution>>
       /\ logs' = logs \cup {IF synced_execution # "None"
                             THEN "status_at_interrupt"
                             ELSE "interrupt_before_sync"}
       /\ input_queue' = <<>>
       /\ worker' = "reading"
       /\ pc' = "confirming"
       /\ trace' = Append(trace, "interrupt")
       /\ UNCHANGED <<terminateOutcome, typed, response, timedOut,
                      synced_execution, resynced, completed, timeouts,
                      exitStatus, execution_context, calls, mainVars>>
    \/ /\ pc \in {"syncing", "sleeping"}
       /\ pc' = "crashed"
       /\ exitStatus' = UnhandledInterrupt
       /\ UNCHANGED <<terminateOutcome, worker, input_queue, typed, response,
                      timedOut, synced_execution, statusAtInterrupt, resynced,
                      completed, timeouts, trace, logs, execution_context,
                      calls, mainVars>>

\* KeyboardInterrupt at a suspension point of the loop: the status at hand is
\* logged, the queue is created, the daemon thread is started, and the main
\* thread blocks in input_queue.get(timeout=60).
Interrupt ==
    /\ pc \in {"waiting", "syncing", "sleeping"}
    /\ statusAtInterrupt' = <<synced_execution>>
    /\ logs' = logs \cup {IF synced_execution # "None"
                          THEN "status_at_interrupt"
                          ELSE "interrupt_before_sync"}
    /\ input_queue' = <<>>
    /\ worker' = "reading"
    /\ pc' = "confirming"
    /\ trace' = Append(trace, "interrupt")
    /\ UNCHANGED <<terminateOutcome, typed, response, timedOut,
                   synced_execution, resynced, completed, timeouts,
                   exitStatus, execution_context, calls, mainVars>>

\* Faulty variant: the worker prompts again after every line it has put.
WorkerInputKeepsReading ==
    /\ Alive
    /\ worker = "reading"
    /\ Len(input_queue) < 2
    /\ \E text \in {<<>>, <<"y">>} :
        /\ typed' = <<text>>
        /\ input_queue' = Append(input_queue, text)
    /\ UNCHANGED <<terminateOutcome, pc, worker, response, timedOut,
                   synced_execution, statusAtInterrupt, resynced, completed,
                   timeouts, trace, logs, exitStatus, execution_context,
                   calls, mainVars>>

\* get_user_input: input() returns a line, which is put in the queue.
WorkerInput ==
    /\ Alive
    /\ worker = "reading"
    /\ \E text \in Texts :
        /\ typed' = <<text>>
        /\ input_queue' = Append(input_queue, text)
    /\ worker' = "done"
    /\ UNCHANGED <<terminateOutcome, pc, response, timedOut, synced_execution,
                   statusAtInterrupt, resynced, completed, timeouts, trace,
                   logs, exitStatus, execution_context, calls, mainVars>>

\* get_user_input: input() raises (end of input): the thread ends, nothing is put.
WorkerEOF ==
    /\ Alive
    /\ worker = "reading"
    /\ worker' = "dead"
    /\ UNCHANGED <<terminateOutcome, pc, input_queue, typed, response,
                   timedOut, synced_execution, statusAtInterrupt, resynced,
                   completed, timeouts, trace, logs, exitStatus,
                   execution_context, calls, mainVars>>

\* input_queue.get returns within the 60 seconds; the handler's remote.sync is issued.
GetResponse ==
    /\ pc = "confirming"
    /\ input_queue # <<>>
    /\ response' = <<Normalise(Head(input_queue))>>
    /\ input_queue' = Tail(input_queue)
    /\ pc' = "resyncing"
    /\ trace' = trace \o <<"answered", "sync">>
    /\ UNCHANGED <<terminateOutcome, worker, typed, timedOut,
                   synced_execution, statusAtInterrupt, resynced, completed,
                   timeouts, logs, exitStatus, execution_context, calls, mainVars>>

\* input_queue.get raises queue.Empty after 60 seconds; remote.sync is issued.
GetTimeout ==
    /\ pc = "confirming"
    /\ input_queue = <<>>
    /\ response' = <<TimeoutDefault>>
    /\ timedOut' = TRUE
    /\ pc' = "resyncing"
    /\ trace' = trace \o <<"expired", "sync">>
    /\ UNCHANGED <<terminateOutcome, worker, input_queue, typed,
                   synced_execution, statusAtInterrupt, resynced, completed,
                   timeouts, logs, exitStatus, execution_context, calls, mainVars>>

\* The handler's remote.sync returns and the decision is taken: terminate is
\* issued, or the handler logs why not and calls sys.exit().
FinalSyncReturns ==
    /\ pc = "resyncing"
    /\ \E phase \in Phases :
        /\ synced_execution' = phase
        /\ resynced' = <<phase>>
        /\ IF PhaseAllowsTerminate(DecisivePhase(synced_execution, phase))
           THEN IF IsAffirmative(response[1])
                THEN /\ trace' = Append(trace, "terminate")
                     /\ pc' = "terminating"
                     /\ UNCHANGED <<logs, exitStatus>>
                ELSE /\ logs' = logs \cup {"not_terminating"}
                     /\ pc' = "exited"
                     /\ exitStatus' = SysExit(<<>>)
                     /\ UNCHANGED trace
           ELSE /\ logs' = logs \cup {"already_terminal"}
                /\ pc' = "exited"
                /\ exitStatus' = SysExit(<<>>)
                /\ UNCHANGED trace
    /\ UNCHANGED <<terminateOutcome, worker, input_queue, typed, response,
                   timedOut, statusAtInterrupt, completed, timeouts,
                   execution_context, calls, mainVars>>

\* The handler's remote.sync raises: nothing in the handler catches it.
FinalSyncFails ==
    /\ pc = "resyncing"
    /\ pc' = "crashed"
    /\ trace' = Append(trace, "failed")
    /\ exitStatus' = Unhandled
    /\ UNCHANGED <<terminateOutcome, worker, input_queue, typed, response,
                   timedOut, synced_execution, statusAtInterrupt, resynced,
                   completed, timeouts, logs, execution_context, calls, mainVars>>

\* remote.terminate returns.
TerminateReturns ==
    /\ pc = "terminating"
    /\ terminateOutcome' = "returned"
    /\ logs' = logs \cup {"terminated"}
    /\ pc' = "exited"
    /\ exitStatus' = SysExit(<<>>)
    /\ UNCHANGED <<worker, input_queue, typed, response, timedOut,
                   synced_execution, statusAtInterrupt, resynced, completed,
                   timeouts, trace, execution_context, calls, mainVars>>

\* remote.terminate raises FlyteSystemException: caught and logged.
TerminateSystemException ==
    /\ pc = "terminating"
    /\ terminateOutcome' = "FlyteSystemException"
    /\ logs' = logs \cup {"terminate_error"}
    /\ pc' = "exited"
    /\ exitStatus' = SysExit(<<>>)
    /\ UNCHANGED <<worker, input_queue, typed, response, timedOut,
                   synced_execution, statusAtInterrupt, resynced, completed,
                   timeouts, trace, execution_context, calls, mainVars>>

\* remote.terminate raises an exception that is no FlyteSystemException.
TerminateOtherException ==
    /\ pc = "terminating"
    /\ terminateOutcome' = "other"
    /\ pc' = "crashed"
    /\ exitStatus' = Unhandled
    /\ UNCHANGED <<worker, input_queue, typed, response, timedOut,
                   synced_execution, statusAtInterrupt, resynced, completed,
                   timeouts, trace, logs, execution_context, calls, mainVars>>

\* Faulty variant: the handler catches a KeyboardInterrupt raised inside it
\* and asks for the confirmation again.
SecondInterruptAsksAgain ==
    /\ pc \in {"confirming", "resyncing", "terminating"}
    /\ input_queue' = <<>>
    /\ worker' = "reading"
    /\ pc' = "confirming"
    /\ trace' = Append(trace, "interrupt")
    /\ UNCHANGED <<terminateOutcome, typed, response, timedOut,
                   synced_execution, statusAtInterrupt, resynced, completed,
                   timeouts, logs, exitStatus, execution_context, calls, mainVars>>

\* A second KeyboardInterrupt, raised while the handler runs: the handler is
\* itself the except clause, so nothing catches it.
SecondInterrupt ==
    /\ pc \in {"confirming", "resyncing", "terminating"}
    /\ pc' = "crashed"
    /\ exitStatus' = UnhandledInterrupt
    /\ UNCHANGED <<terminateOutcome, worker, input_queue, typed, response,
                   timedOut, synced_execution, statusAtInterrupt, resynced,
                   completed, timeouts, trace, logs, execution_context,
                   calls, mainVars>>

----------------------------------------------------------------------------
Next ==
    \/ Start
    \/ WaitSucceeds
    \/ WaitReportsError
    \/ WaitTimeout
    \/ WaitFails
    \/ SyncReturns
    \/ SyncFails
    \/ SleepDone
    \/ Interrupt
    \/ WorkerInput
    \/ WorkerEOF
    \/ GetResponse
    \/ GetTimeout
    \/ FinalSyncReturns
    \/ FinalSyncFails
    \/ TerminateReturns
    \/ TerminateSystemException
    \/ TerminateOtherException
    \/ SecondInterrupt

Spec == Init /\ [][Next]_vars

\* A step of the main thread: every blocking call of it ends (the backend
\* answers or the call raises, the sleep and the 60 second wait expire).
MainStep ==
    \/ Start
    \/ WaitSucceeds
    \/ WaitReportsError
    \/ WaitTimeout
    \/ WaitFails
    \/ SyncReturns
    \/ SyncFails
    \/ SleepDone
    \/ GetResponse
    \/ GetTimeout
    \/ FinalSyncReturns
    \/ FinalSyncFails
    \/ TerminateReturns
    \/ TerminateSystemException
    \/ TerminateOtherException

FairSpec == Spec /\ WF_vars(MainStep)

----------------------------------------------------------------------------
(* execute_workflow *)

InitExec ==
    /\ pc = "entry"
    /\ worker = "idle"
    /\ input_queue = <<>>
    /\ typed = <<>>
    /\ response = <<>>
    /\ timedOut = FALSE
    /\ synced_execution = "None"
    /\ statusAtInterrupt = <<>>
    /\ resynced = <<>>
    /\ completed = "none"
    /\ timeouts = 0
    /\ terminateOutcome = "none"
    /\ trace = <<>>
    /\ logs = {}
    /\ exitStatus = <<>>
    /\ execution_context \in Contexts
    /\ calls = <<>>
    /\ CalledDirectly

\* Faulty variant: the client is built before the mode is looked at.
EnterLocalAfterClient ==
    /\ pc = "entry"
    /\ execution_context.mode = "local"
    /\ calls' = calls \o << <<"FlyteRemote">>, <<"entity", "inputs">> >>
    /\ logs' = logs \cup {"output"}
    /\ pc' = "finished"
    /\ UNCHANGED <<worker, input_queue, typed, response, timedOut,
                   synced_execution, statusAtInterrupt, resynced, completed,
                   timeouts, terminateOutcome, trace, exitStatus,
                   execution_context, mainVars>>

\* mode == "local": the entity is called in-process with the inputs, the output
\* is logged and execute_workflow returns.
EnterLocal ==
    /\ pc = "entry"
    /\ execution_context.mode = "local"
    /\ calls' = Append(calls, <<"entity", "inputs">>)
    /\ logs' = logs \cup {"output"}
    /\ pc' = "finished"
    /\ UNCHANGED <<worker, input_queue, typed, response, timedOut,
                   synced_execution, statusAtInterrupt, resynced, completed,
                   timeouts, terminateOutcome, trace, exitStatus,
                   execution_context, mainVars>>

\* mode == "dev": FlyteRemote and ImageConfig are built, the warning is logged
\* and remote.fast_package is called.
EnterDev ==
    /\ pc = "entry"
    /\ execution_context.mode = "dev"
    /\ calls' = calls \o << <<"FlyteRemote">>, <<"fast_package", "src">> >>
    /\ logs' = logs \cup {"dev_warning"}
    /\ pc' = "packaging"
    /\ UNCHANGED <<worker, input_queue, typed, response, timedOut,
                   synced_execution, statusAtInterrupt, resynced, completed,
                   timeouts, terminateOutcome, trace, exitStatus,
                   execution_context, mainVars>>

\* Faulty variant: prod packages and uploads the source tree as dev does.
EnterProdWithPackaging ==
    /\ pc = "entry"
    /\ execution_context.mode = "prod"
    /\ calls' = calls \o << <<"FlyteRemote">>, <<"fast_package", "src">> >>
    /\ logs' = logs \cup {"registering"}
    /\ pc' = "packaging"
    /\ UNCHANGED <<worker, input_queue, typed, response, timedOut,
                   synced_execution, statusAtInterrupt, resynced, completed,
                   timeouts, terminateOutcome, trace, exitStatus,
                   execution_context, mainVars>>

\* mode == "prod": FlyteRemote and ImageConfig are built and
\* remote.register_workflow is called with the image alone.
EnterProd ==
    /\ pc = "entry"
    /\ execution_context.mode = "prod"
    /\ calls' = calls \o << <<"FlyteRemote">>, RegisterCall(execution_context, <<>>) >>
    /\ logs' = logs \cup {"registering"}
    /\ pc' = "registering"
    /\ UNCHANGED <<worker, input_queue, typed, response, timedOut,
                   synced_execution, statusAtInterrupt, resynced, completed,
                   timeouts, terminateOutcome, trace, exitStatus,
                   execution_context, mainVars>>

\* Faulty variant: every mode that is not local or dev is registered like prod.
EnterInvalidAsProd ==
    /\ pc = "entry"
    /\ execution_context.mode \notin {"local", "dev", "prod"}
    /\ calls' = calls \o << <<"FlyteRemote">>, RegisterCall(execution_context, <<>>) >>
    /\ logs' = logs \cup {"registering"}
    /\ pc' = "registering"
    /\ UNCHANGED <<worker, input_queue, typed, response, timedOut,
                   synced_execution, statusAtInterrupt, resynced, completed,
                   timeouts, terminateOutcome, trace, exitStatus,
                   execution_context, mainVars>>

\* Any other mode: FlyteRemote and ImageConfig are built, the error is logged
\* and sys.exit(1) is called.
EnterInvalid ==
    /\ pc = "entry"
    /\ execution_context.mode \notin {"local", "dev", "prod"}
    /\ calls' = Append(calls, <<"FlyteRemote">>)
    /\ logs' = logs \cup {"invalid_mode"}
    /\ pc' = "exited"
    /\ exitStatus' = SysExit(<<1>>)
    /\ UNCHANGED <<worker, input_queue, typed, response, timedOut,
                   synced_execution, statusAtInterrupt, resynced, completed,
                   timeouts, terminateOutcome, trace, execution_context, mainVars>>

\* remote.fast_package returns the upload location: it is logged and
\* remote.register_workflow is called with settings that carry it.
PackageReturns ==
    /\ pc = "packaging"
    /\ \E upload_url \in UploadUrls :
        calls' = calls \o << <<"upload_url", upload_url>>,
                             RegisterCall(execution_context, <<upload_url>>) >>
    /\ logs' = logs \cup {"uploaded"}
    /\ pc' = "registering"
    /\ UNCHANGED <<worker, input_queue, typed, response, timedOut,
                   synced_execution, statusAtInterrupt, resynced, completed,
                   timeouts, terminateOutcome, trace, exitStatus,
                   execution_context, mainVars>>

\* remote.fast_package raises: nothing in execute_workflow catches it.
PackageFails ==
    /\ pc = "packaging"
    /\ calls' = Append(calls, <<"raised", "fast_package">>)
    /\ pc' = "crashed"
    /\ exitStatus' = Unhandled
    /\ UNCHANGED <<worker, input_queue, typed, response, timedOut,
                   synced_execution, statusAtInterrupt, resynced, completed,
                   timeouts, terminateOutcome, trace, logs, execution_context, mainVars>>

\* remote.register_workflow returns: remote.execute is called.
RegisterReturns ==
    /\ pc = "registering"
    /\ calls' = Append(calls, ExecuteCall(execution_context))
    /\ pc' = "submitting"
    /\ UNCHANGED <<worker, input_queue, typed, response, timedOut,
                   synced_execution, statusAtInterrupt, resynced, completed,
                   timeouts, terminateOutcome, trace, logs, exitStatus,
                   execution_context, mainVars>>

\* Faulty variant: a failed registration is logged and the submission goes on.
RegisterFailsIsSwallowed ==
    /\ pc = "registering"
    /\ calls' = calls \o << <<"raised", "register_workflow">>,
                             ExecuteCall(execution_context) >>
    /\ logs' = logs \cup {"error"}
    /\ pc' = "submitting"
    /\ UNCHANGED <<worker, input_queue, typed, response, timedOut,
                   synced_execution, statusAtInterrupt, resynced, completed,
                   timeouts, terminateOutcome, trace, exitStatus,
                   execution_context, mainVars>>

\* remote.register_workflow raises: nothing in execute_workflow catches it.
RegisterFails ==
    /\ pc = "registering"
    /\ calls' = Append(calls, <<"raised", "register_workflow">>)
    /\ pc' = "crashed"
    /\ exitStatus' = Unhandled
    /\ UNCHANGED <<worker, input_queue, typed, response, timedOut,
                   synced_execution, statusAtInterrupt, resynced, completed,
                   timeouts, terminateOutcome, trace, logs, execution_context, mainVars>>

\* remote.execute returns the execution: it is logged with its console url,
\* and with wait set wait_for_workflow_completion is entered.
ExecuteReturns ==
    /\ pc = "submitting"
    /\ logs' = logs \cup {"submitted", "url"}
    /\ IF MonitorWanted(execution_context)
       THEN /\ calls' = Append(calls, <<"wait_for_workflow_completion">>)
            /\ pc' = "start"
       ELSE /\ pc' = "finished"
            /\ UNCHANGED calls
    /\ UNCHANGED <<worker, input_queue, typed, response, timedOut,
                   synced_execution, statusAtInterrupt, resynced, completed,
                   timeouts, terminateOutcome, trace, exitStatus,
                   execution_context, mainVars>>

\* remote.execute raises: nothing in execute_workflow catches it.
ExecuteFails ==
    /\ pc = "submitting"
    /\ calls' = Append(calls, <<"raised", "execute">>)
    /\ pc' = "crashed"
    /\ exitStatus' = Unhandled
    /\ UNCHANGED <<worker, input_queue, typed, response, timedOut,
                   synced_execution, statusAtInterrupt, resynced, completed,
                   timeouts, terminateOutcome, trace, logs, execution_context, mainVars>>

\* execute_workflow, and the polling loop of the monitor when no
\* KeyboardInterrupt is raised.
NextExec ==
    \/ EnterLocal
    \/ EnterDev
    \/ EnterProd
    \/ EnterInvalid
    \/ PackageReturns
    \/ PackageFails
    \/ RegisterReturns
    \/ RegisterFails
    \/ ExecuteReturns
    \/ ExecuteFails
    \/ Start
    \/ WaitSucceeds
    \/ WaitReportsError
    \/ WaitTimeout
    \/ WaitFails
    \/ SyncReturns
    \/ SyncFails
    \/ SleepDone

SpecExec == InitExec /\ [][NextExec]_vars

----------------------------------------------------------------------------
(* main: the click group, flytezen.cli.execute.main and the top-level script *)

\* execution_context before hydra has instantiated one.
NoContext ==
    [mode |-> "none", image |-> "", tag |-> <<>>, version |-> <<>>, wait |-> FALSE]

InitMain ==
    /\ pc = "main"
    /\ worker = "idle"
    /\ input_queue = <<>>
    /\ typed = <<>>
    /\ response = <<>>
    /\ timedOut = FALSE
    /\ synced_execution = "None"
    /\ statusAtInterrupt = <<>>
    /\ resynced = <<>>
    /\ completed = "none"
    /\ timeouts = 0
    /\ terminateOutcome = "none"
    /\ trace = <<>>
    /\ logs = {}
    /\ exitStatus = <<>>
    /\ execution_context = NoContext
    /\ calls = <<>>
    /\ argv \in Commands
    /\ environ \in (IF argv.entry = "script"
                    THEN Environments
                    ELSE {FullEnviron("dev"),
                          [FullEnviron("dev") EXCEPT !["WORKFLOW_IMAGE"] = <<>>]})
    /\ repository \in MainRepositories
    /\ queries = <<>>
    /\ identity = <<>>
    /\ store = <<>>
    /\ drawn = <<>>
    /\ jobs = 0

\* Faulty variant: the group without a subcommand starts the pipeline.
CliNoSubcommandRunsPipeline ==
    /\ pc = "main"
    /\ argv.entry = "cli"
    /\ argv.subcommand = "none"
    /\ logs' = logs \cup {"echo"}
    /\ queries' = Append(queries, "branch")
    /\ pc' = "git_branch"
    /\ UNCHANGED <<worker, input_queue, typed, response, timedOut,
                   synced_execution, statusAtInterrupt, resynced, completed,
                   timeouts, terminateOutcome, trace, exitStatus,
                   execution_context, calls, argv, environ, repository,
                   identity, store, jobs, drawn>>

\* The click group invoked without a subcommand (invoke_without_command):
\* the group callback echoes the program name and click exits with status 0.
CliNoSubcommand ==
    /\ pc = "main"
    /\ argv.entry = "cli"
    /\ argv.subcommand = "none"
    /\ logs' = logs \cup {"echo"}
    /\ pc' = "done"
    /\ exitStatus' = <<0>>
    /\ UNCHANGED <<worker, input_queue, typed, response, timedOut,
                   synced_execution, statusAtInterrupt, resynced, completed,
                   timeouts, terminateOutcome, trace,
                   execution_context, calls, mainVars>>

\* The subcommand execute: after the group callback, execute_main(args) is
\* called with one argument, and main takes none: TypeError.
CliExecute ==
    /\ pc = "main"
    /\ argv.entry = "cli"
    /\ argv.subcommand = "execute"
    /\ logs' = logs \cup {"echo"}
    /\ pc' = "crashed"
    /\ exitStatus' = Unhandled
    /\ UNCHANGED <<worker, input_queue, typed, response, timedOut,
                   synced_execution, statusAtInterrupt, resynced, completed,
                   timeouts, terminateOutcome, trace,
                   execution_context, calls, mainVars>>

\* flytezen.cli.execute.main: load_dotenv, the hydra configuration is stored
\* and git_info_to_workflow_version issues its first query.
PackageStart ==
    /\ pc = "main"
    /\ argv.entry = "package"
    /\ queries' = Append(queries, "branch")
    /\ pc' = "git_branch"
    /\ UNCHANGED <<worker, input_queue, typed, response, timedOut,
                   synced_execution, statusAtInterrupt, resynced, completed,
                   timeouts, terminateOutcome, trace, logs,
                   exitStatus, execution_context, calls, argv, environ,
                   repository, identity, store, jobs, drawn>>

\* main of the top-level script: load_dotenv, then
\* check_required_env_vars(...) or exit(1), then the first git query.
ScriptStart ==
    /\ pc = "main"
    /\ argv.entry = "script"
    /\ IF check_required_env_vars(RequiredVars, environ)
       THEN /\ queries' = Append(queries, "branch")
            /\ pc' = "git_branch"
            /\ UNCHANGED <<logs, exitStatus>>
       ELSE /\ logs' = logs \cup {"missing_env"}
            /\ pc' = "exited"
            /\ exitStatus' = SysExit(<<1>>)
            /\ UNCHANGED queries
    /\ UNCHANGED <<worker, input_queue, typed, response, timedOut,
                   synced_execution, statusAtInterrupt, resynced, completed,
                   timeouts, terminateOutcome, trace,
                   execution_context, calls, argv, environ, repository,
                   identity, store, jobs, drawn>>

\* git rev-parse --abbrev-ref HEAD returns: git rev-parse --short HEAD is issued.
GitBranchReturns ==
    /\ pc = "git_branch"
    /\ queries' = Append(queries, "sha")
    /\ pc' = "git_sha"
    /\ UNCHANGED <<worker, input_queue, typed, response, timedOut,
                   synced_execution, statusAtInterrupt, resynced, completed,
                   timeouts, terminateOutcome, trace, logs,
                   exitStatus, execution_context, calls, argv, environ,
                   repository, identity, store, jobs, drawn>>

\* git rev-parse --short HEAD returns: git config --get remote.origin.url is issued.
GitShaReturns ==
    /\ pc = "git_sha"
    /\ queries' = Append(queries, "url")
    /\ pc' = "git_url"
    /\ UNCHANGED <<worker, input_queue, typed, response, timedOut,
                   synced_execution, statusAtInterrupt, resynced, completed,
                   timeouts, terminateOutcome, trace, logs,
                   exitStatus, execution_context, calls, argv, environ,
                   repository, identity, store, jobs, drawn>>

\* The last query returns: the three components are derived (with a warning
\* for each capitalized one in the package) and returned to main.
GitUrlReturns ==
    /\ pc = "git_url"
    /\ IF argv.entry = "script"
       THEN /\ identity' = script_git_info_to_workflow_version(repository)
            /\ UNCHANGED logs
       ELSE /\ identity' = git_info_to_workflow_version(repository)
            /\ logs' = IF \E k \in 1..3 :
                            HasUpper(script_git_info_to_workflow_version(repository)[k])
                       THEN logs \cup {"capitalized"}
                       ELSE logs
    /\ pc' = "derived"
    /\ UNCHANGED <<worker, input_queue, typed, response, timedOut,
                   synced_execution, statusAtInterrupt, resynced, completed,
                   timeouts, terminateOutcome, trace,
                   exitStatus, execution_context, calls, argv, environ,
                   repository, queries, store, jobs, drawn>>

\* Faulty variant: a failed query is issued again.
GitFailsAndRetries ==
    /\ pc \in {"git_branch", "git_sha", "git_url"}
    /\ Len(queries) < 6
    /\ queries' = queries \o <<"raised", queries[Len(queries)]>>
    /\ logs' = logs \cup {"git_error"}
    /\ UNCHANGED <<worker, input_queue, typed, response, timedOut,
                   synced_execution, statusAtInterrupt, resynced, completed,
                   timeouts, terminateOutcome, trace, pc,
                   exitStatus, execution_context, calls, argv, environ,
                   repository, identity, store, jobs, drawn>>

\* A git command fails: CalledProcessError is logged and raised again, any
\* other error (no git executable) is not caught at all; main has no handler.
GitFails ==
    /\ pc \in {"git_branch", "git_sha", "git_url"}
    /\ queries' = Append(queries, "raised")
    /\ \E error \in {"CalledProcessError", "FileNotFoundError"} :
        logs' = IF error = "CalledProcessError"
                THEN logs \cup {"git_error"}
                ELSE logs
    /\ pc' = "crashed"
    /\ exitStatus' = Unhandled
    /\ UNCHANGED <<worker, input_queue, typed, response, timedOut,
                   synced_execution, statusAtInterrupt, resynced, completed,
                   timeouts, terminateOutcome, trace,
                   execution_context, calls, argv, environ, repository,
                   identity, store, jobs, drawn>>

\* main of the package builds the three presets, drawing the local and the
\* dev suffix, stores them, and hydra_main starts the first job.
PackageBuildPresets ==
    /\ pc = "derived"
    /\ argv.entry = "package"
    /\ \E local_suffix \in random_alphanumeric_suffix,
          dev_suffix \in random_alphanumeric_suffix :
        LET workflow_image == EnvGet(environ, "WORKFLOW_IMAGE", DefaultImage)
            presets == Presets(identity, workflow_image, local_suffix, dev_suffix)
        IN  /\ store' = <<presets>>
            /\ execution_context' = presets[argv.choice]
            /\ drawn' = drawn \o << <<"local", local_suffix>>, <<"dev", dev_suffix>> >>
    /\ logs' = logs \cup {"hydra_defaults"}
    /\ jobs' = 1
    /\ pc' = "entry"
    /\ UNCHANGED <<worker, input_queue, typed, response, timedOut,
                   synced_execution, statusAtInterrupt, resynced, completed,
                   timeouts, terminateOutcome, trace,
                   exitStatus, calls, argv, environ, repository, queries,
                   identity>>

\* main of the script composes the version, picks the tag by
\* WORKFLOW_REGISTRATION_MODE (or logs the invalid mode and exits with 1),
\* stores the workflow configuration, and hydra_main starts the first job.
ScriptBuildConfig ==
    /\ pc = "derived"
    /\ argv.entry = "script"
    /\ LET mode == EnvGet(environ, "WORKFLOW_REGISTRATION_MODE", "None")
       IN  IF mode \in {"dev", "prod"}
           THEN /\ execution_context' =
                    [mode |-> mode,
                     image |-> EnvGet(environ, "WORKFLOW_IMAGE", "None"),
                     tag |-> IF mode = "dev" THEN identity[2] ELSE identity[3],
                     version |-> VersionOf(identity),
                     wait |-> TRUE]
                /\ jobs' = 1
                /\ pc' = "script_entry"
                /\ UNCHANGED <<logs, exitStatus>>
           ELSE /\ logs' = logs \cup {"invalid_mode"}
                /\ pc' = "exited"
                /\ exitStatus' = SysExit(<<1>>)
                /\ UNCHANGED <<execution_context, jobs>>
    /\ UNCHANGED <<worker, input_queue, typed, response, timedOut,
                   synced_execution, statusAtInterrupt, resynced, completed,
                   timeouts, terminateOutcome, trace,
                   calls, argv, environ, repository, queries, identity, store, drawn>>

DevSuffix == <<"-", "d", "e", "v">>

\* execute_workflow of the script, mode dev: the client is built and
\* remote.execute_local_workflow is called with version + "-dev".
ScriptEnterDev ==
    /\ pc = "script_entry"
    /\ execution_context.mode = "dev"
    /\ calls' = calls \o << <<"FlyteRemote">>,
                            <<"execute_local_workflow",
                              execution_context.version \o DevSuffix,
                              execution_context.version, FALSE>> >>
    /\ logs' = logs \cup {"executing_copy"}
    /\ pc' = "submitting"
    /\ UNCHANGED <<worker, input_queue, typed, response, timedOut,
                   synced_execution, statusAtInterrupt, resynced, completed,
                   timeouts, terminateOutcome, trace, exitStatus,
                   execution_context, mainVars>>

\* execute_workflow of the script, mode prod: the client is built and
\* remote.register_workflow is called, as in the package.
ScriptEnterProd ==
    /\ pc = "script_entry"
    /\ execution_context.mode = "prod"
    /\ calls' = calls \o << <<"FlyteRemote">>, RegisterCall(execution_context, <<>>) >>
    /\ logs' = logs \cup {"registering"}
    /\ pc' = "registering"
    /\ UNCHANGED <<worker, input_queue, typed, response, timedOut,
                   synced_execution, statusAtInterrupt, resynced, completed,
                   timeouts, terminateOutcome, trace, exitStatus,
                   execution_context, mainVars>>

\* execute_workflow has returned and the sweep has another job: hydra
\* instantiates the configuration again and calls execute_workflow.
NextJob ==
    /\ pc \in {"finished", "returned"}
    /\ argv.entry \in {"package", "script"}
    /\ jobs < argv.jobs
    /\ jobs' = jobs + 1
    /\ IF argv.entry = "package"
       THEN /\ execution_context' = store[1][argv.choice]
            /\ pc' = "entry"
       ELSE /\ UNCHANGED execution_context
            /\ pc' = "script_entry"
    /\ UNCHANGED <<worker, input_queue, typed, response, timedOut,
                   synced_execution, statusAtInterrupt, resynced, completed,
                   timeouts, terminateOutcome, trace, logs,
                   exitStatus, calls, argv, environ, repository, queries,
                   identity, store, drawn>>

\* The last job has returned: hydra_main and main return.
MainReturns ==
    /\ pc \in {"finished", "returned"}
    /\ argv.entry \in {"package", "script"}
    /\ jobs = argv.jobs
    /\ pc' = "done"
    /\ exitStatus' = <<0>>
    /\ UNCHANGED <<worker, input_queue, typed, response, timedOut,
                   synced_execution, statusAtInterrupt, resynced, completed,
                   timeouts, terminateOutcome, trace, logs,
                   execution_context, calls, mainVars>>

\* The three entry points, execute_workflow, and the monitor of a run whose
\* first remote.wait returns or raises.
NextMain ==
    \/ CliNoSubcommand
    \/ CliExecute
    \/ PackageStart
    \/ ScriptStart
    \/ GitBranchReturns
    \/ GitShaReturns
    \/ GitUrlReturns
    \/ GitFails
    \/ PackageBuildPresets
    \/ ScriptBuildConfig
    \/ ScriptEnterDev
    \/ ScriptEnterProd
    \/ NextJob
    \/ MainReturns
    \/ EnterLocal
    \/ EnterDev
    \/ EnterProd
    \/ PackageReturns
    \/ PackageFails
    \/ RegisterReturns
    \/ RegisterFails
    \/ ExecuteReturns
    \/ ExecuteFails
    \/ Start
    \/ WaitSucceeds
    \/ WaitReportsError
    \/ WaitFails

SpecMain == InitMain /\ [][NextMain]_vars

\* git_info_to_workflow_version alone, at its last query, for every origin url.
InitVersion ==
    /\ pc = "git_url"
    /\ worker = "idle"
    /\ input_queue = <<>>
    /\ typed = <<>>
    /\ response = <<>>
    /\ timedOut = FALSE
    /\ synced_execution = "None"
    /\ statusAtInterrupt = <<>>
    /\ resynced = <<>>
    /\ completed = "none"
    /\ timeouts = 0
    /\ terminateOutcome = "none"
    /\ trace = <<>>
    /\ logs = {}
    /\ exitStatus = <<>>
    /\ execution_context = NoContext
    /\ calls = <<>>
    /\ argv \in [entry : {"package", "script"}, subcommand : {"none"},
                 choice : {"dev"}, jobs : {1}]
    /\ environ = FullEnviron("dev")
    /\ repository \in VersionRepositories
    /\ queries = <<"branch", "sha", "url">>
    /\ identity = <<>>
    /\ store = <<>>
    /\ drawn = <<>>
    /\ jobs = 0

NextVersion ==
    \/ GitUrlReturns
    \/ GitFails

SpecVersion == InitVersion /\ [][NextVersion]_vars

----------------------------------------------------------------------------
(* Reading the history *)

RECURSIVE Count(_, _)
Count(seq, kind) ==
    IF seq = <<>> THEN 0
    ELSE (IF Head(seq) = kind THEN 1 ELSE 0) + Count(Tail(seq), kind)

nTerminate == Count(trace, "terminate")

InterruptCaught == statusAtInterrupt # <<>>

\* The response reached the main flow within the 60 seconds.
AnsweredInTime == Count(trace, "answered") = 1

\* The handler's re-synchronisation has reported this phase.
Resynced(phase) == resynced = <<phase>>

\* The trace of a loop that saw n timeouts and then a wait that returned.
RECURSIVE PollPattern(_)
PollPattern(n) ==
    IF n = 0 THEN <<"wait">> ELSE <<"wait", "sync", "sleep">> \o PollPattern(n - 1)

\* text is white space, then y or yes in any case, then white space.
SameLetter(c, d) == c = d \/ (c = "Y" /\ d = "y")

IsYesText(text) ==
    \E i \in 1..Len(text) : \E j \in i..Len(text) :
        /\ \A k \in 1..Len(text) : (k < i \/ k > j) => text[k] = " "
        /\ \E word \in {<<"y">>, <<"y", "e", "s">>} :
            /\ Len(word) = j - i + 1
            /\ \A k \in 1..Len(word) : SameLetter(text[i + k - 1], word[k])

CallOps == [i \in 1..Len(calls) |-> calls[i][1]]

CountOp(op) == Count(CallOps, op)

BackendOps ==
    {"fast_package", "register_workflow", "execute", "wait_for_workflow_completion"}

ValidModes == {"local", "dev", "prod"}

\* remote.execute has returned the execution.
Submitted == "submitted" \in logs

\* The call of execute_workflow named op raised.
Raised(op) ==
    \E i \in 1..Len(calls) : calls[i][1] = "raised" /\ calls[i][2] = op

LastOf(seq) == IF seq = <<>> THEN "none" ELSE seq[Len(seq)]

IsPrefix(p, text) == Len(p) <= Len(text) /\ SubSeq(text, 1, Len(p)) = p

EndsWith(text, suffix) ==
    /\ Len(suffix) <= Len(text)
    /\ SubSeq(text, Len(text) - Len(suffix) + 1, Len(text)) = suffix

\* text without one trailing suffix, when it ends with it.
RemoveSuffix(text, suffix) ==
    IF EndsWith(text, suffix)
    THEN SubSeq(text, 1, Len(text) - Len(suffix))
    ELSE text

\* '<repo>-<branch>-<sha>' of the derived identity.
IdentityText == identity[1] \o <<"-">> \o identity[2] \o <<"-">> \o identity[3]

\* version is prefix, then the mark, then 3 lower-case letters or digits.
IsSuffixed(version, prefix, mark) ==
    /\ Len(version) = Len(prefix) + Len(mark) + 3
    /\ IsPrefix(prefix \o mark, version)
    /\ \A i \in (Len(version) - 2)..Len(version) : version[i] \in SuffixAlphabet

\* The base image main reads from the environment.
BaseImage ==
    IF environ["WORKFLOW_IMAGE"] = <<>> THEN DefaultImage
    ELSE environ["WORKFLOW_IMAGE"][1]

nDrawnFor(preset) ==
    Cardinality({i \in 1..Len(drawn) : drawn[i][1] = preset})

GitRaised == Count(queries, "raised") >= 1

PollingStates == {"waiting", "syncing", "sleeping"}

HandlerStates == {"confirming", "resyncing", "terminating"}

\* What input_queue.put has been called with so far: what is still queued and
\* what the main flow has taken.
nPut == Len(input_queue) + Count(trace, "answered")

\* How often input_queue.get has ended, with a value or with queue.Empty.
nGet == Count(trace, "answered") + Count(trace, "expired")

----------------------------------------------------------------------------
(* Claims *)

\* C1: when the handler's re-synchronisation reports a non-terminal phase
\* (queued, running, aborting) and the confirmation was affirmative, a
\* terminate request is issued; the "already in terminal state" branch is
\* taken only when the re-synced phase is terminal.
C1_NonTerminalConfirmedTerminates ==
    /\ \A phase \in NonTerminalPhases :
        (Resynced(phase) /\ IsAffirmative(response[1])) => nTerminate >= 1
    /\ "already_terminal" \in logs => resynced[1] \in TerminalPhases

\* C2: a run that was interrupted and exited without terminating the remote
\* execution ends with an exit status different from 0.
C2_AbandonedRunExitsNonZero ==
    (pc = "exited" /\ InterruptCaught /\ nTerminate = 0) => exitStatus # <<0>>

\* C3: whatever exception remote.terminate raises, it is caught and logged and
\* the handler reaches its final exit call.
C3_TerminateFailureIsCaught ==
    terminateOutcome \in {"FlyteSystemException", "other"} =>
        (pc = "exited" /\ "terminate_error" \in logs)

\* C4: with a response in time that is y or yes up to surrounding white space
\* and case, and the re-synchronisation reporting RUNNING, exactly one
\* terminate call is issued; any other response text yields none.
C4_YesAndRunningTerminatesOnce ==
    AnsweredInTime =>
        IF IsYesText(typed[1])
        THEN nTerminate <= 1 /\ (Resynced("RUNNING") => nTerminate = 1)
        ELSE nTerminate = 0

C4_Witness ==
    /\ AnsweredInTime
    /\ typed = << <<" ", "Y">> >>
    /\ Resynced("RUNNING")
    /\ nTerminate = 1
    /\ pc = "exited"

\* C5: when no response arrives within the bound, the main flow stops waiting,
\* takes the answer to be negative and issues no terminate call, whatever the
\* re-synced phase and whatever the worker delivers later.
C5_TimeoutNeverTerminates ==
    timedOut =>
        /\ pc # "confirming"
        /\ ~IsAffirmative(response[1])
        /\ nTerminate = 0

C5_Witness ==
    /\ timedOut
    /\ typed = << <<"y">> >>
    /\ input_queue = << <<"y">> >>
    /\ Resynced("RUNNING")
    /\ pc = "exited"

\* C6: when the handler's re-synchronisation reports a terminal phase, no
\* terminate call is issued, whatever the confirmation was.
C6_TerminalPhaseNeverTerminates ==
    \A phase \in TerminalPhases : Resynced(phase) => nTerminate = 0

C6_Witness ==
    /\ Resynced("FAILED")
    /\ AnsweredInTime
    /\ IsAffirmative(response[1])
    /\ pc = "exited"

\* C7: a terminate call directly follows a re-synchronisation that was issued
\* after the confirmation wait ended, and the phase that re-synchronisation
\* returned, not the one at hand at the interrupt, is the one that allowed it.
C7_TerminateFollowsFreshSync ==
    /\ \A i \in 1..Len(trace) :
        trace[i] = "terminate" =>
            /\ i >= 3
            /\ trace[i - 1] = "sync"
            /\ trace[i - 2] \in {"answered", "expired"}
    /\ nTerminate >= 1 => Resynced("RUNNING")

C7_Witness ==
    /\ nTerminate = 1
    /\ statusAtInterrupt = <<"SUCCEEDED">>
    /\ Resynced("RUNNING")

\* C8: at most one terminate call per run; one has been issued only after an
\* interrupt was caught, an affirmative response arrived in time and the
\* re-synchronisation reported RUNNING; without an interrupt there is none.
C8_TerminationNeverAutomatic ==
    /\ nTerminate <= 1
    /\ nTerminate >= 1 =>
        /\ InterruptCaught
        /\ AnsweredInTime
        /\ ~timedOut
        /\ IsYesText(typed[1])
        /\ Resynced("RUNNING")
    /\ ~InterruptCaught => nTerminate = 0

C8_Witness ==
    /\ nTerminate = 1
    /\ terminateOutcome = "returned"
    /\ timeouts >= 1
    /\ pc = "exited"

\* C9: after N timeouts and a wait that returns a completed execution without
\* error, with no interrupt, the monitor has issued N+1 waits, N
\* re-synchronisations and N sleeps, each timeout followed by the
\* re-synchronisation and then the sleep, and has returned without exiting.
C9_TimeoutsThenSuccess ==
    pc = "returned" =>
        /\ completed = "ok"
        /\ ~InterruptCaught
        /\ trace = PollPattern(timeouts)
        /\ Count(trace, "wait") = timeouts + 1
        /\ Count(trace, "sync") = timeouts
        /\ Count(trace, "sleep") = timeouts
        /\ exitStatus = <<>>

C9_Witness ==
    /\ pc = "returned"
    /\ timeouts >= 2

\* C10: when the wait returns a completed execution that carries an error, the
\* error is logged, the process exits with a nonzero status, and no wait,
\* re-synchronisation, sleep or terminate call follows; the interrupt handler
\* does not run.
C10_ExecutionFailureExits ==
    completed = "error" =>
        /\ pc = "exited"
        /\ "error" \in logs
        /\ exitStatus # <<>> /\ exitStatus[1] # 0
        /\ trace = PollPattern(timeouts)
        /\ ~InterruptCaught
        /\ worker = "idle"

C10_Witness ==
    /\ completed = "error"
    /\ timeouts >= 1
    /\ pc = "exited"

\* C11: once an interrupt has been caught, the main flow never returns to
\* polling or to the caller, and on every branch of the handler (confirmation
\* affirmative, negative or timed out; phase running or terminal; terminate
\* succeeding or failing; worker still reading) the process ends through the
\* handler's exit call.
C11_InterruptAlwaysReachesExit ==
    (/\ InterruptCaught
     /\ Count(trace, "failed") = 0
     /\ exitStatus # UnhandledInterrupt)
        => pc \in HandlerStates \cup {"exited"}

\* C12: a KeyboardInterrupt raised during the bounded wait, the
\* re-synchronisation or the sleep of the loop is handled, not re-raised, and
\* no wait and no sleep is issued after it.
C12_InterruptEndsPolling ==
    /\ Count(trace, "interrupt") <= 1
    /\ \A i \in 1..Len(trace) : \A j \in 1..Len(trace) :
        (i < j /\ trace[i] = "interrupt") => trace[j] \notin {"wait", "sleep"}
    /\ InterruptCaught => pc \notin PollingStates \cup {"start", "returned"}
    /\ exitStatus = UnhandledInterrupt => InterruptCaught

C12_Witness ==
    /\ pc = "exited"
    /\ \E i \in 1..(Len(trace) - 1) : trace[i] = "sync" /\ trace[i + 1] = "interrupt"

\* C13: the worker puts at most one value, the main flow ends its get at most
\* once, and the response the decision uses is the one value put before the
\* expiry, or the default "n", never a second value.
C13_SingleSlotHandoff ==
    /\ nPut <= 1
    /\ nGet <= 1
    /\ Len(input_queue) <= 1
    /\ response # <<>> =>
        IF timedOut
        THEN response = << <<"n">> >> /\ Count(trace, "answered") = 0
        ELSE /\ typed # <<>>
             /\ input_queue = <<>>
             /\ IsAffirmative(response[1]) <=> IsYesText(typed[1])

C13_Witness ==
    /\ response = << <<"y", "e", "s">> >>
    /\ typed = << <<"Y", "e", "s">> >>
    /\ nPut = 1
    /\ nGet = 1
    /\ pc = "exited"

\* C14: the loop leaves polling only because a wait returned a completed
\* execution, an interrupt was caught or a call raised, never because of the
\* number of timeouts, after which another timeout is always possible; and
\* when the backend eventually returns a completed execution and there is no
\* interrupt, the monitor returns (no error) or exits with a nonzero status.
C14_PollsUntilCompletion ==
    /\ [][(pc \in PollingStates /\ pc' \notin PollingStates) =>
            (completed' # "none" \/ InterruptCaught' \/ pc' = "crashed")]_vars
    /\ [](pc = "waiting" /\ timeouts < MaxTimeouts => ENABLED WaitTimeout)
    /\ <>(\/ InterruptCaught
          \/ pc = "crashed"
          \/ completed = "ok" /\ pc = "returned"
          \/ completed = "error" /\ pc = "exited" /\ exitStatus # <<0>>)

C14_Witness ==
    /\ pc = "returned"
    /\ timeouts = MaxTimeouts
    /\ ~InterruptCaught

\* C15: an exception of the bounded wait or of the loop's re-synchronisation,
\* other than the timeout, is not swallowed and not retried: no call follows
\* it and the process ends with a nonzero status.
C15_LoopFailureIsFatal ==
    \A i \in 1..Len(trace) :
        (trace[i] = "failed" /\ ~InterruptCaught) =>
            /\ i = Len(trace)
            /\ pc = "crashed"
            /\ exitStatus # <<>> /\ exitStatus[1] # 0

C15_Witness ==
    /\ ~InterruptCaught
    /\ Len(trace) >= 3
    /\ trace[Len(trace)] = "failed"
    /\ trace[Len(trace) - 1] = "sync"

\* C16: with wait = false execute_workflow returns right after the submission
\* and the monitor is not entered: no wait, re-synchronisation or terminate
\* call is issued; with wait = true the monitor is entered exactly once, right
\* after the submit call.
C16_MonitorOnlyWhenWaiting ==
    /\ ~execution_context.wait =>
        /\ CountOp("wait_for_workflow_completion") = 0
        /\ trace = <<>>
        /\ Submitted => pc = "finished"
    /\ execution_context.wait =>
        /\ CountOp("wait_for_workflow_completion") <= 1
        /\ Submitted => CountOp("wait_for_workflow_completion") = 1
    /\ \A i \in 1..Len(calls) :
        calls[i][1] = "wait_for_workflow_completion" =>
            i = Len(calls) /\ i > 1 /\ calls[i - 1][1] = "execute"
    /\ trace # <<>> => CountOp("wait_for_workflow_completion") = 1

C16_Witness ==
    /\ ~execution_context.wait
    /\ execution_context.mode = "dev"
    /\ Submitted
    /\ pc = "finished"

C18_InvalidModeExits ==
    execution_context.mode \notin ValidModes =>
        /\ pc \in {"entry", "exited"}
        /\ pc = "exited" => (exitStatus = <<1>> /\ "invalid_mode" \in logs)
        /\ \A i \in 1..Len(calls) : calls[i][1] \notin BackendOps
        /\ trace = <<>>

C18_Witness ==
    /\ execution_context.mode = "DEV"
    /\ pc = "exited"

\* C19: in dev and in prod, register_workflow is called once and then execute
\* once, in that order; the registration version, the submission version and
\* the execution name prefix are all execution_context.version, and execute is
\* called with wait=False.
C19_RegisterThenSubmitSameVersion ==
    execution_context.mode \in {"dev", "prod"} =>
        /\ CountOp("register_workflow") <= 1
        /\ CountOp("execute") <= 1
        /\ Submitted => (CountOp("register_workflow") = 1 /\ CountOp("execute") = 1)
        /\ \A i \in 1..Len(calls) :
            /\ calls[i][1] = "register_workflow" =>
                calls[i][3] = execution_context.version
            /\ calls[i][1] = "execute" =>
                /\ i > 1
                /\ calls[i - 1][1] = "register_workflow"
                /\ calls[i][2] = execution_context.version
                /\ calls[i][3] = execution_context.version
                /\ calls[i][4] = FALSE

C19_Witness ==
    /\ execution_context.mode = "dev"
    /\ execution_context.version = "flytezen-main-16323b3-dev-a1b"
    /\ Submitted
    /\ CountOp("register_workflow") = 1
    /\ CountOp("execute") = 1

\* C20: the source tree is packaged and uploaded if and only if the mode is
\* dev; in dev this happens on every invocation, before the registration,
\* whose settings carry the upload location that was returned; in prod nothing
\* is packaged and the registration settings hold the image reference alone.
C20_FastPackagingOnlyInDev ==
    /\ CountOp("fast_package") >= 1 => execution_context.mode = "dev"
    /\ (execution_context.mode = "dev" /\ pc # "entry") =>
        CountOp("fast_package") = 1
    /\ \A i \in 1..Len(calls) :
        calls[i][1] = "register_workflow" =>
            /\ calls[i][2].image_config =
                    <<execution_context.image, execution_context.tag>>
            /\ IF execution_context.mode = "dev"
               THEN /\ i > 2
                    /\ calls[i - 2][1] = "fast_package"
                    /\ calls[i - 1][1] = "upload_url"
                    /\ calls[i][2].distribution_location = <<calls[i - 1][2]>>
               ELSE calls[i][2].distribution_location = <<>>

C20_Witness ==
    /\ execution_context.mode = "dev"
    /\ CountOp("fast_package") = 1
    /\ \E i \in 1..Len(calls) :
        /\ calls[i][1] = "register_workflow"
        /\ calls[i][2].distribution_location = <<"s3://bucket/fast-2.tar.gz">>
    /\ pc = "finished"

\* C21: a failure of register_workflow or of execute is neither retried nor
\* swallowed: the failing call is the last one made, no submission and no
\* monitoring follows a failed registration, no monitoring follows a failed
\* submission, no call is issued twice, and the exception leaves
\* execute_workflow (the process ends with status 1).
C21_RegistrationFailureIsFatal ==
    /\ CountOp("register_workflow") <= 1
    /\ CountOp("execute") <= 1
    /\ \A i \in 1..Len(calls) :
        calls[i][1] = "raised" =>
            /\ i = Len(calls)
            /\ pc = "crashed"
            /\ exitStatus = Unhandled
            /\ CountOp("wait_for_workflow_completion") = 0
            /\ trace = <<>>
            /\ ~Submitted
    /\ Raised("register_workflow") =>
        (CountOp("register_workflow") = 1 /\ CountOp("execute") = 0)
    /\ Raised("execute") =>
        (CountOp("register_workflow") = 1 /\ CountOp("execute") = 1)

C21_Witness ==
    /\ Raised("register_workflow")
    /\ execution_context.mode = "prod"
    /\ execution_context.wait
    /\ pc = "crashed"

\* C28: a KeyboardInterrupt raised after the first one was caught (while the
\* main thread waits for the answer, re-synchronises or terminates) is not
\* handled by the monitor: the process ends with it, terminate was called at
\* most once, and not at all when the answer had not been read yet.
C28_SecondInterruptIsUnhandled ==
    /\ nTerminate <= 1
    /\ Count(trace, "interrupt") <= 1
    /\ exitStatus = UnhandledInterrupt =>
        /\ InterruptCaught
        /\ pc = "crashed"
        /\ terminateOutcome = "none"
        /\ response = <<>> => (nTerminate = 0 /\ resynced = <<>>)
        /\ nTerminate = 1 => LastOf(trace) = "terminate"

C28_Witness ==
    /\ exitStatus = UnhandledInterrupt
    /\ response = <<>>
    /\ typed # <<>>
    /\ IsYesText(typed[1])
    /\ statusAtInterrupt = <<"RUNNING">>

\* C29: the polling loop ends only on a remote.wait that returned: after a
\* return, or an exit that no interrupt caused, the last call issued is that
\* wait and the outcome is the one it reported; a terminal phase reported by
\* remote.sync in the FlyteTimeout branch is only logged, and the loop sleeps
\* and calls remote.wait again.
C29_LoopEndsOnlyOnWaitResult ==
    /\ pc = "returned" => (completed = "ok" /\ LastOf(trace) = "wait")
    /\ (pc = "exited" /\ ~InterruptCaught) =>
        (completed = "error" /\ LastOf(trace) = "wait" /\ exitStatus = <<1>>)
    /\ completed # "none" => pc \in {"returned", "exited"}
    /\ pc = "sleeping" =>
        (Alive /\ LastOf(trace) = "sleep" /\ "status" \in logs)
    /\ \A i \in 1..Len(trace) :
        (trace[i] = "sleep" /\ i < Len(trace)) =>
            trace[i + 1] \in {"wait", "interrupt"}

C29_Witness ==
    /\ pc = "waiting"
    /\ synced_execution \in TerminalPhases
    /\ ~InterruptCaught
    /\ trace = PollPattern(1)
    /\ Alive

\* C22: the three presets follow the mode table for the derived identity and
\* the base image: local has image '' and tag '' and version
\* '<repo>-<branch>-<sha>-local-<3 chars>', dev has the base image, the
\* branch as tag and version '<repo>-<branch>-<sha>-dev-<3 chars>', prod has
\* the base image, the revision as tag and the bare '<repo>-<branch>-<sha>';
\* every version starts with the identity and the suffix characters are
\* lower-case letters or digits.
C22_PresetsFollowModeTable ==
    store # <<>> =>
        LET presets == store[1]
        IN  /\ presets.local.mode = "local"
            /\ presets.local.image = ""
            /\ presets.local.tag = <<>>
            /\ IsSuffixed(presets.local.version, IdentityText,
                          <<"-", "l", "o", "c", "a", "l", "-">>)
            /\ presets.dev.mode = "dev"
            /\ presets.dev.image = BaseImage
            /\ presets.dev.tag = identity[2]
            /\ IsSuffixed(presets.dev.version, IdentityText,
                          <<"-", "d", "e", "v", "-">>)
            /\ presets.prod.mode = "prod"
            /\ presets.prod.image = BaseImage
            /\ presets.prod.tag = identity[3]
            /\ presets.prod.version = IdentityText
            /\ \A name \in {"local", "dev", "prod"} :
                IsPrefix(IdentityText, presets[name].version)

C22_Witness ==
    /\ store # <<>>
    /\ identity[2] = <<"h", "e", "a", "d">>
    /\ environ["WORKFLOW_IMAGE"] = <<>>
    /\ EndsWith(store[1].dev.version, <<"-", "a", "7", "a">>)
    /\ EndsWith(store[1].local.version, <<"-", "7", "7", "a">>)

\* C23: every dev submission carries a suffix drawn for it: in one process
\* there are at least as many dev suffixes drawn as registrations made in dev
\* mode, so the jobs of one sweep do not share the suffix drawn when the
\* presets were built.
C23_FreshSuffixPerSubmission ==
    (argv.entry = "package" /\ argv.choice = "dev") =>
        CountOp("register_workflow") <= nDrawnFor("dev")

\* C24: the repo name, the branch and the short revision returned by
\* git_info_to_workflow_version contain no upper-case character, whatever
\* the git commands print.
C24_IdentityIsLowerCase ==
    identity # <<>> => \A k \in 1..3 : ~HasUpper(identity[k])

\* C25: when a git query fails, no query is issued again, the failure leaves
\* main with a nonzero status, and no execution context was built and no
\* registration or submission call was made.
C25_ProvenanceFailureAborts ==
    /\ \A q \in {"branch", "sha", "url"} : Count(queries, q) <= 1
    /\ GitRaised =>
        /\ Count(queries, "raised") = 1
        /\ LastOf(queries) = "raised"
        /\ pc = "crashed"
        /\ exitStatus = <<1>>
        /\ identity = <<>>
        /\ store = <<>>
        /\ execution_context = NoContext
        /\ calls = <<>>

C25_Witness ==
    /\ queries = <<"branch", "sha", "raised">>
    /\ argv.entry = "package"
    /\ "git_error" \in logs
    /\ pc = "crashed"

\* C26: when a required configuration value is missing from the environment,
\* the package entry point and the top-level script exit with status 1 before
\* any git query and any registration or submission call.
C26_MissingConfigurationExits ==
    (argv.entry \in {"package", "script"}
        /\ missing_vars(RequiredVars, environ) # {}) =>
        /\ queries = <<>>
        /\ calls = <<>>
        /\ pc \in {"main", "exited"}
        /\ pc = "exited" => exitStatus = <<1>>

\* C27: the command-line group invoked without a subcommand exits with status
\* 0 and starts nothing of the pipeline: no git query, no registration, no
\* submission, no monitoring.
C27_GroupAloneExitsZero ==
    (argv.entry = "cli" /\ argv.subcommand = "none") =>
        /\ pc \in {"main", "done"}
        /\ pc = "done" => exitStatus = <<0>>
        /\ pc = "main" => exitStatus = <<>>
        /\ queries = <<>>
        /\ identity = <<>>
        /\ store = <<>>
        /\ calls = <<>>
        /\ trace = <<>>

C27_Witness ==
    /\ argv.entry = "cli"
    /\ argv.subcommand = "none"
    /\ pc = "done"
    /\ "echo" \in logs

\* C30: the repo name is the last '/'-separated segment of the origin url
\* with one trailing '.git' removed when present and nothing else removed,
\* then lower-cased.
C30_RepoNameDropsOnlyDotGit ==
    (argv.entry = "package" /\ identity # <<>>) =>
        identity[1] =
            Lower(RemoveSuffix(LastSegment(repository.url), <<".", "g", "i", "t">>))

====
